---- MODULE Spec2Model ----
(***************************************************************************)
(* A model of the Verlet sandbox in lib/Simulation.ts (src/unnamed/        *)
(* part_000) and of its single caller, src/routes/+page.svelte.            *)
(*                                                                         *)
(* Three specifications share the variables below.                         *)
(*   Spec      the orchestrator's lifecycle: start(), stop() and the       *)
(*             scheduler's frame callbacks, with the per-tick driver       *)
(*             step(t).                                                    *)
(*   SpecSpawn the same operations on the bounded-objects scenario, run    *)
(*             long enough for the spawn cap to be reached.                *)
(*   SpecPhys  the particle and link state under Link.apply(),             *)
(*             solveCollisions(), applyConstraint() and update(dt).        *)
(*                                                                         *)
(* Times are integers: timestamps and dtWall in milliseconds, subDt in     *)
(* microseconds (subDt = min(dt, 1/50) / 1000 seconds is exactly           *)
(* min(dtMs * 1000, 20000) / 1000 microseconds).  In the lifecycle         *)
(* specifications the particle state itself is not carried: a tick is      *)
(* recorded by the number of update() calls it completed and the subDt it  *)
(* passed to them.                                                         *)
(*                                                                         *)
(* In SpecPhys a number is an extended rational <<n, d>>: d > 0 is the     *)
(* finite value n/d in lowest terms, <<1, 0>> is Infinity, <<-1, 0>> is    *)
(* -Infinity and <<0, 0>> is NaN, with the IEEE-754 rules for the special  *)
(* values.  Rounding of finite results and the sign of zero are not        *)
(* modelled.                                                               *)
(***************************************************************************)
EXTENDS Integers, Sequences, FiniteSets, TLC

VARIABLES
    simType,      \* Simulation.simType
    bounded,      \* Simulation.bounded
    collisions,   \* Simulation.collisions
    hasCanvas,    \* whether Simulation.canvas / Simulation.ctx have been set
    playing,      \* Simulation.playing
    id,           \* Simulation.id: the handle of the last requested frame
    t,            \* Simulation.t: the timestamp of the last tick
    nObjects,     \* Simulation.objects.length (lifecycle specifications)
    pending,      \* the scheduler's pending frame callbacks (handles)
    clock,        \* the last timestamp the scheduler delivered
    run,          \* ticks executed since the last start(), saturating at 2
    tick,         \* what the most recent execution of step(t) did
    op,           \* the operation that produced this state
    objects,      \* Simulation.objects (SpecPhys)
    links,        \* Simulation.links (SpecPhys)
    pre,          \* Simulation.objects before the last operation (SpecPhys)
    built,        \* Simulation.objects as constructed (SpecPhys)
    mid,          \* Simulation.objects as the last update(dt) reached
                  \* updatePositions(dt) (SpecPhys)
    budget        \* operations SpecPhys may still take

lifeVars == <<simType, bounded, collisions, hasCanvas, playing, id, t, nObjects,
              pending, clock, run, tick>>
physVars == <<objects, links, built, pre, mid, budget>>
vars == <<simType, bounded, collisions, hasCanvas, playing, id, t, nObjects,
          pending, clock, run, tick, op, objects, links, built, pre, mid,
          budget>>

(***************************************************************************)
(* Program constants.                                                      *)
(***************************************************************************)
DoublePendulums == 0
LongPendulum == 1
BoundedObjects == 2
SimTypes == {DoublePendulums, LongPendulum, BoundedObjects}

Undefined == -1          \* an unset `id` or `t`
SUBSTEPS == 1000
CapUs == 20000           \* 1/50 s, in microseconds
SpawnPeriod == 500
MaxObjects == 100
DoublePendulumCount == 10
LongPendulumCount == 10

(***************************************************************************)
(* Bounds of the model.                                                    *)
(***************************************************************************)
MaxPending == 2          \* frames the scheduler may hold at once
MaxTime == 100           \* last timestamp delivered under Spec
DeltaFast == 16          \* a frame interval below the 1/50 s cap
DeltaSlow == 34          \* a frame interval above the 1/50 s cap
SpawnDelta == 250        \* frame interval (and twice it) under SpecSpawn
MaxSpawnTime == 50500    \* last timestamp delivered under SpecSpawn
MaxOps == 2              \* operations applied to a scene under SpecPhys

Min(a, b) == IF a < b THEN a ELSE b

(***************************************************************************)
(* Scenario construction.                                                  *)
(***************************************************************************)
ScenarioObjects(st) ==
    IF st = DoublePendulums THEN 1 + 2 * DoublePendulumCount
    ELSE IF st = LongPendulum THEN 1 + (LongPendulumCount - 1)
    ELSE 0

ScenarioFlag(st) == st = BoundedObjects

(***************************************************************************)
(* step(t): the per-tick driver.                                           *)
(***************************************************************************)
\* `this.t || t`: an unset t and a t of 0 are both falsy.
LastOr(tt, ts) == IF tt = Undefined \/ tt = 0 THEN ts ELSE tt

\* dt * 1000: the wall-clock interval of the tick in milliseconds.
StepDt(tt, ts) == ts - LastOr(tt, ts)

\* subDt in microseconds: Math.min(dt, 1 / 50) / substeps.
SubDt(dtMs) == Min(dtMs * 1000, CapUs) \div SUBSTEPS

\* Without a canvas, update() throws in applyConstraint() when `bounded` is
\* set (this.canvas.width), and otherwise draw() throws after the substep
\* loop (this.ctx.clearRect).
StepThrows(hc) == ~hc

UpdatesCompleted(hc, bd) == IF ~hc /\ bd THEN 0 ELSE SUBSTEPS

\* The spawn test without its cap on objects.length.
SpawnDueNoCap(st, ts, dtMs, n) ==
    st = BoundedObjects /\ ts % SpawnPeriod < dtMs

\* The spawn test of the bounded-objects scenario.
SpawnDue(st, ts, dtMs, n) ==
    st = BoundedObjects /\ ts % SpawnPeriod < dtMs /\ n < MaxObjects

\* The handle requestAnimationFrame returns: one that names no pending frame
\* and is not the stale `id`.
FreshHandle(pend, cur) ==
    CHOOSE h \in 0..(MaxPending + 1) : h \notin pend /\ h # cur

\* step(ts) with `pend` the scheduler's pending frames as it is entered, `hc`
\* whether a canvas is attached and `pl` the value of `playing`.
Step(ts, pend, hc, pl) ==
    LET dtMs == StepDt(t, ts)
        threw == StepThrows(hc)
        spawn == ~threw /\ SpawnDue(simType, ts, dtMs, nObjects)
        h == FreshHandle(pend, id)
    IN  /\ t' = ts
        /\ tick' = [seq |-> 1 - tick.seq, ts |-> ts, prev |-> t, dt |-> dtMs,
                    subDt |-> SubDt(dtMs),
                    updates |-> UpdatesCompleted(hc, bounded),
                    threw |-> threw, before |-> nObjects, spawned |-> spawn,
                    stopped |-> ~pl]
        /\ IF ~threw /\ pl
           THEN id' = h /\ pending' = pend \cup {h}
           ELSE id' = id /\ pending' = pend
        /\ nObjects' = IF spawn THEN nObjects + 1 ELSE nObjects

NoTick == [seq |-> 0, ts |-> 0, prev |-> Undefined, dt |-> 0, subDt |-> 0,
           updates |-> 0, threw |-> FALSE, before |-> 0, spawned |-> FALSE,
           stopped |-> FALSE]

(***************************************************************************)
(* Lifecycle operations.                                                   *)
(***************************************************************************)
\* start(canvas?): `c` is whether a canvas is passed; `cap` bounds the frames
\* the scheduler holds.
Start(c, cap) ==
    /\ Cardinality(pending) < cap
    /\ hasCanvas' = (hasCanvas \/ c)
    /\ playing' = TRUE
    /\ Step(0, pending, hasCanvas \/ c, TRUE)
    /\ run' = 1
    /\ op' = "start"
    /\ UNCHANGED <<simType, bounded, collisions, clock>>
    /\ UNCHANGED physVars

\* stop()
Stop ==
    /\ playing' = FALSE
    /\ pending' = IF id # Undefined THEN pending \ {id} ELSE pending
    /\ op' = "stop"
    /\ UNCHANGED <<simType, bounded, collisions, hasCanvas, id, t, nObjects,
                   clock, run, tick>>
    /\ UNCHANGED physVars

\* The scheduler runs the pending callback `h` with timestamp `ts`.
Frame(h, ts) ==
    /\ h \in pending
    /\ clock' = ts
    /\ Step(ts, pending \ {h}, hasCanvas, playing)
    /\ run' = Min(run + 1, 2)
    /\ op' = "frame"
    /\ UNCHANGED <<simType, bounded, collisions, hasCanvas, playing>>
    /\ UNCHANGED physVars

\* The page's checkbox: simulation.bounded = !simulation.bounded.
ToggleBounded ==
    /\ bounded' = ~bounded
    /\ op' = "toggle"
    /\ UNCHANGED <<simType, collisions, hasCanvas, playing, id, t, nObjects,
                   pending, clock, run, tick>>
    /\ UNCHANGED physVars

\* The page's second checkbox: simulation.collisions = !simulation.collisions.
ToggleCollisions ==
    /\ collisions' = ~collisions
    /\ op' = "toggle"
    /\ UNCHANGED <<simType, bounded, hasCanvas, playing, id, t, nObjects,
                   pending, clock, run, tick>>
    /\ UNCHANGED physVars

Times(maxT, ds) == {clock + d : d \in ds} \cap 0..maxT

NoPhys ==
    /\ objects = <<>>
    /\ links = <<>>
    /\ built = <<>>
    /\ pre = <<>>
    /\ mid = <<>>
    /\ budget = 0

InitLife(types) ==
    /\ simType \in types
    /\ bounded = ScenarioFlag(simType)
    /\ collisions = ScenarioFlag(simType)
    /\ hasCanvas = FALSE
    /\ playing = FALSE
    /\ id = Undefined
    /\ t = Undefined
    /\ nObjects = ScenarioObjects(simType)
    /\ pending = {}
    /\ clock = 0
    /\ run = 0
    /\ tick = NoTick
    /\ op = "new"
    /\ NoPhys

Init == InitLife(SimTypes)

Next ==
    \/ \E c \in BOOLEAN : Start(c, MaxPending)
    \/ Stop
    \/ \E h \in pending, ts \in Times(MaxTime, {DeltaFast, DeltaSlow}) : Frame(h, ts)
    \/ ToggleBounded
    \/ ToggleCollisions

Spec == Init /\ [][Next]_vars

InitSpawn == InitLife({BoundedObjects})

NextSpawn ==
    \/ Start(TRUE, 1)
    \/ Stop
    \/ \E h \in pending, ts \in Times(MaxSpawnTime, {SpawnDelta, 2 * SpawnDelta}) :
          Frame(h, ts)
    \/ ToggleBounded
    \/ ToggleCollisions

SpecSpawn == InitSpawn /\ [][NextSpawn]_vars

(***************************************************************************)
(* Numbers of the physics core: extended rationals.                        *)
(***************************************************************************)
NaN == <<0, 0>>
PInf == <<1, 0>>
NInf == <<-1, 0>>

Abs(n) == IF n < 0 THEN -n ELSE n
Sign(n) == IF n < 0 THEN -1 ELSE IF n > 0 THEN 1 ELSE 0

RECURSIVE GCD(_, _)
GCD(a, b) == IF b = 0 THEN a ELSE GCD(b, a % b)

\* n/d in lowest terms with a positive denominator; n/0 is an infinity or NaN.
Norm(n, d) ==
    IF d = 0 THEN <<Sign(n), 0>>
    ELSE LET g == GCD(Abs(n), Abs(d))
         IN  <<(Sign(d) * n) \div g, Abs(d) \div g>>

R(n) == <<n, 1>>
IsFinite(a) == a[2] > 0
IsInf(a) == a[2] = 0 /\ a[1] # 0

Neg(a) == <<-a[1], a[2]>>

\* a + b
Add(a, b) ==
    IF a = NaN \/ b = NaN THEN NaN
    ELSE IF IsInf(a) /\ IsInf(b) THEN (IF a = b THEN a ELSE NaN)
    ELSE IF IsInf(a) THEN a
    ELSE IF IsInf(b) THEN b
    ELSE Norm(a[1] * b[2] + b[1] * a[2], a[2] * b[2])

\* a - b
Sub(a, b) == Add(a, Neg(b))

\* a * b: 0 * Infinity is NaN
Mul(a, b) == Norm(a[1] * b[1], a[2] * b[2])

\* 1 / a: 1 / 0 is Infinity, 1 / Infinity is 0
Recip(a) == Norm(a[2], a[1])

\* a / b
Div(a, b) == Mul(a, Recip(b))

\* a < b: false when either is NaN
Lt(a, b) ==
    IF a = NaN \/ b = NaN THEN FALSE
    ELSE IF IsInf(a) /\ IsInf(b) THEN a[1] < b[1]
    ELSE a[1] * b[2] < b[1] * a[2]

\* a === b: false when either is NaN
Eq(a, b) == a # NaN /\ b # NaN /\ a = b

AbsR(a) == <<Abs(a[1]), a[2]>>

ISqrt(n) == CHOOSE r \in 0..n : r * r = n

\* Math.hypot(x, y): Infinity when either is infinite, else NaN when either is
\* NaN.  The root is taken exactly; the scenes of SpecPhys keep every vector
\* on one axis, where it is the absolute value of the other component.
Hypot(x, y) ==
    IF IsInf(x) \/ IsInf(y) THEN PInf
    ELSE IF x = NaN \/ y = NaN THEN NaN
    ELSE IF y[1] = 0 THEN AbsR(x)
    ELSE IF x[1] = 0 THEN AbsR(y)
    ELSE LET q == Add(Mul(x, x), Mul(y, y)) IN <<ISqrt(q[1]), ISqrt(q[2])>>

(***************************************************************************)
(* Vec2                                                                    *)
(***************************************************************************)
VAdd(a, b) == <<Add(a[1], b[1]), Add(a[2], b[2])>>
VSub(a, b) == <<Sub(a[1], b[1]), Sub(a[2], b[2])>>
VScale(a, s) == <<Mul(a[1], s), Mul(a[2], s)>>
VLength(a) == Hypot(a[1], a[2])
VZero == <<R(0), R(0)>>

(***************************************************************************)
(* SimObject and FrozenSimObject                                           *)
(***************************************************************************)
\* new SimObject(position, radius, mass) / new FrozenSimObject(...)
NewObject(position, radius, mass, frozen) ==
    [position |-> position, oldPosition |-> position, accleration |-> VZero,
     radius |-> radius, mass |-> mass, frozen |-> frozen,
     originalPosition |-> position]

\* FrozenSimObject.updatePosition() resetting oldPosition only.
FrozenUpdatePositionStale(o) ==
    [o EXCEPT !.oldPosition = o.originalPosition]

\* FrozenSimObject.updatePosition()
FrozenUpdatePosition(o) ==
    [o EXCEPT !.position = o.originalPosition,
              !.oldPosition = o.originalPosition]

\* SimObject.updatePosition(dt)
FreeUpdatePosition(o, dt) ==
    LET velocity == VSub(o.position, o.oldPosition)
    IN  [o EXCEPT !.oldPosition = o.position,
                  !.position = VAdd(VAdd(o.position, velocity),
                                    VScale(o.accleration, Mul(dt, dt))),
                  !.accleration = VZero]

\* updatePosition(dt) with every object taking the anchored override.
UpdatePositionAllFrozen(o, dt) == FrozenUpdatePosition(o)

\* obj.updatePosition(dt), dispatched on the object's class
UpdatePosition(o, dt) ==
    IF o.frozen THEN FrozenUpdatePosition(o) ELSE FreeUpdatePosition(o, dt)

\* SimObject.accelerate(a)
Accelerate(o, a) == [o EXCEPT !.accleration = VAdd(o.accleration, a)]

(***************************************************************************)
(* Link.apply()                                                            *)
(***************************************************************************)
\* Link.apply() with the two shares of the free/free case exchanged.
LinkApplySwapped(objs, l) ==
    LET a == objs[l.a]
        b == objs[l.b]
        axis == VSub(b.position, a.position)
        dist == VLength(axis)
        normal == VScale(axis, Recip(dist))
        delta == VScale(normal, Sub(dist, l.target))
        deltaA == VScale(delta, Div(a.mass, Add(a.mass, b.mass)))
        deltaB == VSub(delta, deltaA)
    IN  IF a.frozen
        THEN [objs EXCEPT ![l.b].position = VSub(b.position, delta)]
        ELSE IF b.frozen
        THEN [objs EXCEPT ![l.a].position = VAdd(a.position, delta)]
        ELSE [objs EXCEPT ![l.a].position = VAdd(a.position, deltaA),
                          ![l.b].position = VSub(b.position, deltaB)]

LinkApply(objs, l) ==
    LET a == objs[l.a]
        b == objs[l.b]
        axis == VSub(b.position, a.position)
        dist == VLength(axis)
        normal == VScale(axis, Recip(dist))
        delta == VScale(normal, Sub(dist, l.target))
        deltaA == VScale(delta, Div(a.mass, Add(a.mass, b.mass)))
        deltaB == VSub(delta, deltaA)
    IN  IF a.frozen
        THEN [objs EXCEPT ![l.b].position = VSub(b.position, delta)]
        ELSE IF b.frozen
        THEN [objs EXCEPT ![l.a].position = VAdd(a.position, delta)]
        ELSE [objs EXCEPT ![l.a].position = VAdd(a.position, deltaB),
                          ![l.b].position = VSub(b.position, deltaA)]

(***************************************************************************)
(* Simulation.update(dt) and its passes                                    *)
(***************************************************************************)
Gravity == <<R(0), R(1000)>>
CanvasWidth == 600
CanvasHeight == 600
ContainRadius == 250

\* applyGravity()
ApplyGravity(objs) == [i \in DOMAIN objs |-> Accelerate(objs[i], Gravity)]

\* applyConstraint(): the body of its loop for one object
Constrain(o) ==
    LET position == <<Div(R(CanvasWidth), R(2)), Div(R(CanvasHeight), R(2))>>
        radius == R(ContainRadius)
        distance == VLength(VSub(o.position, position))
        direction == VSub(o.position, position)
        normal == VScale(direction, Recip(distance))
    IN  IF Lt(Sub(radius, o.radius), distance)
        THEN [o EXCEPT !.position =
                  VAdd(position, VScale(normal, Sub(radius, o.radius)))]
        ELSE o

\* applyConstraint()
ApplyConstraint(objs) == [i \in DOMAIN objs |-> Constrain(objs[i])]

\* The pair's resolution without the `distance === 0` guard.
CollidePairUnguarded(objs, i, j) ==
    LET a == objs[i]
        b == objs[j]
        axis == VSub(a.position, b.position)
        distance == VLength(axis)
        minDistance == Add(a.radius, b.radius)
        normal == VScale(axis, Recip(distance))
        delta == VScale(normal, Sub(minDistance, distance))
        deltaA == VScale(delta, Div(a.mass, Add(a.mass, b.mass)))
        deltaB == VSub(delta, deltaA)
    IN  IF ~Lt(distance, minDistance) THEN objs
        ELSE IF a.frozen
        THEN [objs EXCEPT ![j].position = VSub(b.position, delta)]
        ELSE IF b.frozen
        THEN [objs EXCEPT ![i].position = VAdd(a.position, delta)]
        ELSE [objs EXCEPT ![i].position = VAdd(a.position, deltaB),
                          ![j].position = VSub(b.position, deltaA)]

\* solveCollisions(): the body of the inner loop for the pair i < j
CollidePair(objs, i, j) ==
    LET a == objs[i]
        b == objs[j]
        axis == VSub(a.position, b.position)
        distance == VLength(axis)
        minDistance == Add(a.radius, b.radius)
        normal == VScale(axis, Recip(distance))
        delta == VScale(normal, Sub(minDistance, distance))
        deltaA == VScale(delta, Div(a.mass, Add(a.mass, b.mass)))
        deltaB == VSub(delta, deltaA)
    IN  IF Eq(distance, R(0)) THEN objs
        ELSE IF ~Lt(distance, minDistance) THEN objs
        ELSE IF a.frozen
        THEN [objs EXCEPT ![j].position = VSub(b.position, delta)]
        ELSE IF b.frozen
        THEN [objs EXCEPT ![i].position = VAdd(a.position, delta)]
        ELSE [objs EXCEPT ![i].position = VAdd(a.position, deltaB),
                          ![j].position = VSub(b.position, deltaA)]

RECURSIVE CollideFrom(_, _, _)
CollideFrom(objs, i, j) ==
    IF i > Len(objs) THEN objs
    ELSE IF j > Len(objs) THEN CollideFrom(objs, i + 1, i + 2)
    ELSE CollideFrom(CollidePair(objs, i, j), i, j + 1)

\* solveCollisions()
SolveCollisions(objs) == CollideFrom(objs, 1, 2)

RECURSIVE ApplyLinksFrom(_, _, _)
ApplyLinksFrom(objs, ls, k) ==
    IF k > Len(ls) THEN objs
    ELSE ApplyLinksFrom(LinkApply(objs, ls[k]), ls, k + 1)

\* applyLinks()
ApplyLinks(objs, ls) == ApplyLinksFrom(objs, ls, 1)

\* updatePositions(dt)
UpdatePositions(objs, dt) == [i \in DOMAIN objs |-> UpdatePosition(objs[i], dt)]

\* update(dt) up to and including applyLinks()
Constrained(objs, ls, bd, co) ==
    LET g == ApplyGravity(objs)
        c == IF bd THEN ApplyConstraint(g) ELSE g
        s == IF co THEN SolveCollisions(c) ELSE c
    IN  ApplyLinks(s, ls)

\* update(dt)
UpdateScene(objs, ls, bd, co, dt) ==
    UpdatePositions(Constrained(objs, ls, bd, co), dt)

(***************************************************************************)
(* SpecPhys: scenes of two particles on the vertical line through the      *)
(* containment centre, with at most one link between them, under           *)
(* Link.apply(), solveCollisions() and update(dt), with the page's two     *)
(* checkboxes toggled between operations.                                  *)
(***************************************************************************)
\* The x coordinate of the containment centre, canvas.width / 2.
LineX == CanvasWidth \div 2
CoordsA == {300}
CoordsB == {300, 304, 308, 316, 556}
Masses == {<<1, 1>>, <<3, 1>>, <<1, 3>>}
Radii == {<<4, 4>>, <<4, 8>>, <<256, 4>>}
Targets == {8}
\* update(dt) is called with dt = 0 (the first tick of a run) and dt = 1/8.
Dts == {R(0), <<1, 8>>}

At(y) == <<R(LineX), R(y)>>

Scenes ==
    { <<NewObject(At(ya), R(r[1]), R(m[1]), fa),
        NewObject(At(yb), R(r[2]), R(m[2]), fb)>> :
        ya \in CoordsA, yb \in CoordsB, r \in Radii, m \in Masses,
        fa \in BOOLEAN, fb \in BOOLEAN }

LinkLists ==
    {<<>>} \cup { <<[a |-> 1, b |-> 2, target |-> R(g)]>> : g \in Targets }

InitPhys ==
    /\ simType = LongPendulum
    /\ bounded \in BOOLEAN
    /\ collisions \in BOOLEAN
    /\ hasCanvas = TRUE
    /\ playing = FALSE
    /\ id = Undefined
    /\ t = Undefined
    /\ nObjects = 2
    /\ pending = {}
    /\ clock = 0
    /\ run = 0
    /\ tick = NoTick
    /\ op = "new"
    /\ objects \in Scenes
    /\ links \in LinkLists
    /\ built = objects
    /\ pre = objects
    /\ mid = objects
    /\ budget = MaxOps

\* link.apply() on the k-th link
PhysLink(k) ==
    /\ budget > 0
    /\ objects' = LinkApply(objects, links[k])
    /\ pre' = objects
    /\ mid' = objects'
    /\ op' = "link"
    /\ budget' = budget - 1
    /\ UNCHANGED <<links, built>>
    /\ UNCHANGED lifeVars

\* one solveCollisions() pass
PhysCollide ==
    /\ budget > 0
    /\ objects' = SolveCollisions(objects)
    /\ pre' = objects
    /\ mid' = objects'
    /\ op' = "collide"
    /\ budget' = budget - 1
    /\ UNCHANGED <<links, built>>
    /\ UNCHANGED lifeVars

\* update(dt)
PhysUpdate(dt) ==
    /\ budget > 0
    /\ objects' = UpdateScene(objects, links, bounded, collisions, dt)
    /\ pre' = objects
    /\ mid' = Constrained(objects, links, bounded, collisions)
    /\ op' = "update"
    /\ budget' = budget - 1
    /\ UNCHANGED <<links, built>>
    /\ UNCHANGED lifeVars

NextPhys ==
    \/ \E k \in DOMAIN links : PhysLink(k)
    \/ PhysCollide
    \/ \E dt \in Dts : PhysUpdate(dt)
    \/ ToggleBounded
    \/ ToggleCollisions

SpecPhys == InitPhys /\ [][NextPhys]_vars

(***************************************************************************)
(* Properties of the lifecycle (Spec, SpecSpawn).                          *)
(***************************************************************************)

\* C1: after stop() no scheduled tick remains pending, and no tick executes
\* while the orchestrator is stopped.
C1_StopLeavesNoTick ==
    /\ ~playing => pending = {}
    /\ ~tick.stopped

\* C2: the simulated time of every tick, subDt * SUBSTEPS, lies in
\* [0, 1/50] seconds.
C2_TickTimeInRange ==
    /\ 0 <= tick.subDt * SUBSTEPS
    /\ tick.subDt * SUBSTEPS <= CapUs

\* C3: dtWall is 0 on the first tick of a run and only there; on a later tick
\* it is the timestamp of the tick minus the timestamp of the tick before it.
C3_DtWall ==
    /\ run = 1 => tick.dt = 0
    /\ run = 2 => tick.dt = tick.ts - tick.prev /\ tick.dt # 0

\* C5: the bounded-objects scenario never holds more than 100 particles; a
\* tick appends at most one, and only when there were fewer than 100.
C5_SpawnCap ==
    /\ nObjects <= 100
    /\ tick.before <= nObjects
    /\ nObjects <= tick.before + 1
    /\ nObjects = tick.before + 1 => tick.before < 100

\* A tick whose spawn test passed with 100 particles present, and appended
\* nothing.
C5_CapReached ==
    /\ simType = BoundedObjects
    /\ op = "frame"
    /\ tick.ts % SpawnPeriod < tick.dt
    /\ tick.before = 100
    /\ nObjects = 100

\* C6: start() with no canvas ever attached fails before any substep has run
\* and does not leave the orchestrator playing.
C6_StartFailsFast ==
    (op = "start" /\ ~hasCanvas) =>
        (tick.threw /\ tick.updates = 0 /\ ~playing)

(***************************************************************************)
(* Properties of the physics core (SpecPhys).                              *)
(***************************************************************************)
NonFinite(v) == ~IsFinite(v[1]) \/ ~IsFinite(v[2])
Free(i) == ~built[i].frozen
Distance(objs) == VLength(VSub(objs[2].position, objs[1].position))
FinitePair(objs) == ~NonFinite(objs[1].position) /\ ~NonFinite(objs[2].position)

\* C4: at the end of every update(dt), every anchored particle's position and
\* oldPosition are the position it was constructed with.
C4_AnchorInvariance ==
    op = "update" =>
        \A i \in DOMAIN objects :
            objects[i].frozen =>
                /\ objects[i].position = built[i].position
                /\ objects[i].oldPosition = built[i].position

\* An update(dt) that moved an anchored particle before updatePositions(dt)
\* and ended with it back at its anchor.
C4_AnchorRestored ==
    /\ op = "update"
    /\ \E i \in DOMAIN objects :
          /\ objects[i].frozen
          /\ mid[i].position # built[i].position
          /\ objects[i].position = built[i].position

\* C7: Link.apply() and collision resolution on a pair of two anchored
\* particles change the position of neither.
C7_AnchoredPairUntouched ==
    (op \in {"link", "collide"} /\ pre[1].frozen /\ pre[2].frozen) =>
        /\ objects[1].position = pre[1].position
        /\ objects[2].position = pre[2].position

\* C8: one Link.apply() on two free, non-coincident endpoints moves A by
\* massB/(massA+massB) of delta toward B and B by massA/(massA+massB) of
\* delta toward A (1/4 and 3/4 when massA = 3 massB), and leaves the
\* endpoints targetLength apart.
C8_MassWeightedSplit ==
    (/\ op = "link"
     /\ Free(1) /\ Free(2)
     /\ FinitePair(pre)
     /\ pre[1].position # pre[2].position) =>
        LET A == pre[1]
            B == pre[2]
            target == links[1].target
            axis == VSub(B.position, A.position)
            dist == Distance(pre)
            delta == VScale(axis, Div(Sub(dist, target), dist))
            total == Add(A.mass, B.mass)
            movedA == VSub(objects[1].position, A.position)
            movedB == VSub(B.position, objects[2].position)
        IN  /\ movedA = VScale(delta, Div(B.mass, total))
            /\ movedB = VScale(delta, Div(A.mass, total))
            /\ VAdd(movedA, movedB) = delta
            /\ Distance(objects) = target
            /\ A.mass = Mul(R(3), B.mass) =>
                  /\ movedA = VScale(delta, <<1, 4>>)
                  /\ movedB = VScale(delta, <<3, 4>>)

\* A Link.apply() on free endpoints with massA = 3 massB that moved both.
C8_HeavyEndpointMoved ==
    /\ op = "link"
    /\ Free(1) /\ Free(2)
    /\ FinitePair(pre)
    /\ pre[1].position # pre[2].position
    /\ pre[1].mass = Mul(R(3), pre[2].mass)
    /\ objects[1].position # pre[1].position
    /\ objects[2].position # pre[2].position

\* C9 as stated: a particle whose position was non-finite before an
\* update(dt), or became non-finite during it, has a non-finite position at
\* the end of that update(dt).
C9_NonFinitePersists ==
    op = "update" =>
        \A i \in DOMAIN objects :
            (NonFinite(pre[i].position) \/ NonFinite(mid[i].position)) =>
                NonFinite(objects[i].position)

\* C9 amended: the same of every free particle.
C9_NonFinitePersistsFree ==
    op = "update" =>
        \A i \in DOMAIN objects :
            (Free(i) /\ (NonFinite(pre[i].position) \/ NonFinite(mid[i].position))) =>
                NonFinite(objects[i].position)

\* A free particle that entered an update(dt) with a non-finite position and
\* left it with one.
C9_StillNonFinite ==
    /\ op = "update"
    /\ \E i \in DOMAIN objects :
          /\ Free(i)
          /\ ~NonFinite(built[i].position)
          /\ NonFinite(pre[i].position)
          /\ NonFinite(objects[i].position)

\* C10: one collision pass over two free particles leaves both where they
\* were when their distance is 0 or at least radiusA + radiusB; otherwise it
\* leaves them radiusA + radiusB apart, with the midpoint unchanged when the
\* masses are equal.
C10_CollisionPass ==
    (op = "collide" /\ Free(1) /\ Free(2) /\ FinitePair(pre)) =>
        LET d == Distance(pre)
            sum == Add(pre[1].radius, pre[2].radius)
            overlap == Lt(R(0), d) /\ Lt(d, sum)
        IN  /\ ~overlap =>
                  /\ objects[1].position = pre[1].position
                  /\ objects[2].position = pre[2].position
            /\ overlap =>
                  /\ Distance(objects) = sum
                  /\ pre[1].mass = pre[2].mass =>
                        VAdd(objects[1].position, objects[2].position)
                            = VAdd(pre[1].position, pre[2].position)

\* A collision pass that separated two overlapping free particles of equal
\* mass.
C10_Separated ==
    /\ op = "collide"
    /\ Free(1) /\ Free(2)
    /\ FinitePair(pre)
    /\ Lt(R(0), Distance(pre))
    /\ Lt(Distance(pre), Add(pre[1].radius, pre[2].radius))
    /\ pre[1].mass = pre[2].mass
    /\ objects[1].position # pre[1].position
====
